---------------------------- MODULE Spec2Model ----------------------------
(***************************************************************************)
(* Model of nest-feature-guard: the Redis-backed feature flag store        *)
(* (RedisFeatureFlagCache) and the NestJS guard (FeatureGuard).            *)
(*                                                                         *)
(* The backend is a Redis key space: hashes (key -> field -> string) and   *)
(* sets (key -> set of strings).  Every Redis command is atomic at the     *)
(* server; an async method of the store gives up control at each await,    *)
(* so one action of the model is one command together with the code that   *)
(* runs up to the next await.                                              *)
(***************************************************************************)
EXTENDS Integers, Sequences, FiniteSets, TLC

VARIABLES
  hashes,    \* Redis hashes: key -> (field -> string); absent key = no hash
  sets,      \* Redis sets: key -> non-empty set of members; absent key = no set
  writers,   \* setFeatureFlag calls in flight, one slot per caller
  reader,    \* a getFeature / hasFeatureFlag call in flight
  last,      \* per flag: the last completed setFeatureFlag call (history)
  guard,     \* a FeatureGuard.canActivate call in flight
  request    \* the FeatureGuardRequest object the guard works on

vars == <<hashes, sets, writers, reader, last, guard, request>>

-----------------------------------------------------------------------------
(* Bounds and input domains *)

MaxLen == 2                     \* longest userIds array passed to setFeatureFlag
MaxBatches == 2                 \* most full batches in a long userIds array

batchSize == 1000               \* const batchSize = 1000

featureKeyPrefix == "crudmates:feature-guard"

Flags == {"A"}
Users == {"u1", "u2"}
WriterIds == {"w1"}

RECURSIVE SeqsUpTo(_, _)
SeqsUpTo(S, n) ==
  IF n = 0 THEN {<<>>}
  ELSE LET shorter == SeqsUpTo(S, n - 1)
       IN  shorter \cup {Append(s, x) : s \in {t \in shorter : Len(t) = n - 1}, x \in S}

\* userIds?: string[]  -- hasIds = FALSE is the property being absent
UserIdArgs ==
  {[hasIds |-> FALSE, ids |-> <<>>]} \cup
  {[hasIds |-> TRUE, ids |-> s] : s \in SeqsUpTo(Users, MaxLen)}

Range(s) == {s[i] : i \in 1..Len(s)}

Min(a, b) == IF a < b THEN a ELSE b

-----------------------------------------------------------------------------
(* Redis keys and commands *)

\* variant: the prefix given to the constructor is not used
featureInfoKey_default(prefix, flag) == "crudmates:feature-guard" \o ":" \o flag \o ":info"

featureInfoKey(prefix, flag) == prefix \o ":" \o flag \o ":info"
featureUsersKey(prefix, flag) == prefix \o ":" \o flag \o ":users"

EmptyHash == [f \in {} |-> ""]

\* HGETALL: the hash at key, {} when the key does not exist
hgetall(h, key) == IF key \in DOMAIN h THEN h[key] ELSE EmptyHash

\* HMSET: set the given fields, keep the other fields of the hash
hmset(h, key, fields) ==
  LET old == hgetall(h, key)
      new == [f \in DOMAIN old \cup DOMAIN fields |->
                IF f \in DOMAIN fields THEN fields[f] ELSE old[f]]
  IN  [k \in DOMAIN h \cup {key} |-> IF k = key THEN new ELSE h[k]]

\* SMEMBERS: the members of the set at key, [] when the key does not exist
smembers(s, key) == IF key \in DOMAIN s THEN s[key] ELSE {}

\* SADD: add the members, creating the set
sadd(s, key, members) ==
  [k \in DOMAIN s \cup {key} |-> IF k = key THEN smembers(s, key) \cup members ELSE s[k]]

\* variant: the key is left in place
del_keep(s, key) == s

\* variant: every key goes, not only the one named
del_all(s, key) == [k \in {} |-> s[k]]

\* DEL: remove the key
del(s, key) == [k \in DOMAIN s \ {key} |-> s[k]]

-----------------------------------------------------------------------------
(* JavaScript values that the code tests with === and with truthiness *)

JsUndefined == [t |-> "undefined", v |-> ""]
JsNull == [t |-> "null", v |-> ""]
JsBool(b) == [t |-> "boolean", v |-> IF b THEN "true" ELSE "false"]
JsString(s) == [t |-> "string", v |-> s]
JsNumber(s) == [t |-> "number", v |-> s]
JsObject == [t |-> "object", v |-> "{}"]
JsArray == [t |-> "array", v |-> "[]"]

\* x === true
IsStrictTrue(x) == x.t = "boolean" /\ x.v = "true"

\* ToBoolean(x)
Truthy(x) ==
  CASE x.t = "boolean" -> x.v = "true"
    [] x.t = "string" -> x.v # ""
    [] x.t = "number" -> x.v # "0"
    [] x.t \in {"object", "array"} -> TRUE
    [] OTHER -> FALSE

-----------------------------------------------------------------------------
(* RedisFeatureFlagCache: pure parts *)

\* enabled ? 'true' : 'false'
enabledMarker(enabled) == IF enabled THEN "true" ELSE "false"

\* variant: only an empty hash counts as a missing flag
infoMissing_empty(info) == DOMAIN info = {}

\* !info || !('enabled' in info)
infoMissing(info) == ~("enabled" \in DOMAIN info)

\* variant: the marker taken by truthiness, so that 'false' counts as enabled
infoEnabled_truthy(info) == "enabled" \in DOMAIN info /\ info["enabled"] # ""

\* variant: every marker but 'false' counts as enabled
infoEnabled_notFalse(info) == "enabled" \in DOMAIN info /\ info["enabled"] # "false"

\* info.enabled === 'true'
infoEnabled(info) == "enabled" \in DOMAIN info /\ info["enabled"] = "true"

\* userIds && userIds.length > 0
hasUserIds(u) == u.hasIds /\ Len(u.ids) > 0

\* variant: the batch ends one element early
slice_short(ids, i, j) == SubSeq(ids, i + 1, Min(j - 1, Len(ids)))

\* variant: the batch starts one element late
slice_late(ids, i, j) == SubSeq(ids, i + 2, Min(j, Len(ids)))

\* userIds.slice(i, i + batchSize), i counted from 0
slice(ids, i, j) == SubSeq(ids, i + 1, Min(j, Len(ids)))

\* userIds.includes(userId): the members are strings
includes(userIds, userId) == userId.t = "string" /\ userId.v \in userIds

\* the value getFeature resolves to
NullFeature == [t |-> "null", hasEnabled |-> FALSE, enabled |-> JsUndefined,
                hasUserIds |-> FALSE, userIds |-> {}]
\* variant: userIds is always reported, as [] when there are no users
featureRecord_always(enabled, userIds) ==
  [t |-> "object", hasEnabled |-> TRUE, enabled |-> JsBool(enabled),
   hasUserIds |-> TRUE, userIds |-> userIds]

featureRecord(enabled, userIds) ==
  [t |-> "object", hasEnabled |-> TRUE, enabled |-> JsBool(enabled),
   hasUserIds |-> userIds # {}, userIds |-> userIds]

\* the value hasFeatureFlag resolves to once the users are read
userAllowed(userIds, userId) ==
  IF userIds = {} THEN TRUE ELSE includes(userIds, userId)

-----------------------------------------------------------------------------
(* Calls in flight and the history of completed writes *)

NoUserIds == [hasIds |-> FALSE, ids |-> <<>>]

\* what the backend holds for a flag: the enabled marker and the users set
NoRecord == [has |-> FALSE, marker |-> "", users |-> {}]
recordOf(h, s, p, f) ==
  LET info == hgetall(h, featureInfoKey(p, f)) IN
  [has |-> "enabled" \in DOMAIN info,
   marker |-> IF "enabled" \in DOMAIN info THEN info["enabled"] ELSE "",
   users |-> smembers(s, featureUsersKey(p, f))]

\* a setFeatureFlag call: its arguments, its place in the code (pc is the
\* command it issues next), the commands it has issued (cmds), the one that
\* was rejected (failed), and the record of the flag at its entry (pre)
IdleWriter(out) ==
  [pc |-> "idle", prefix |-> "", flag |-> "", enabled |-> FALSE, u |-> NoUserIds,
   i |-> 0, alone |-> TRUE, out |-> out, pre |-> NoRecord, cmds |-> <<>>, failed |-> ""]

NoResult == [kind |-> "none", feature |-> NullFeature, val |-> FALSE]
FeatureResult(f) == [kind |-> "feature", feature |-> f, val |-> FALSE]
BoolResult(b) == [kind |-> "bool", feature |-> NullFeature, val |-> b]
ErrorResult == [kind |-> "error", feature |-> NullFeature, val |-> FALSE]

NoCall == [st |-> "none", enabled |-> FALSE, u |-> NoUserIds]
DirtyCall == [st |-> "dirty", enabled |-> FALSE, u |-> NoUserIds]
DoneCall(enabled, u) == [st |-> "done", enabled |-> enabled, u |-> u]

IdleReader ==
  [pc |-> "idle", op |-> "", prefix |-> "", flag |-> "", user |-> JsUndefined,
   enabled |-> FALSE, res |-> NoResult, clean |-> TRUE, cmds |-> <<>>, failed |-> ""]

\* the last completed setFeatureFlag on (prefix, flag): "done" with its
\* arguments when it ran without another write of that flag touching it,
\* "dirty" while or after some write of the flag did not run alone to its end
lastOf(l, p, f) == IF <<p, f>> \in DOMAIN l THEN l[<<p, f>>] ELSE NoCall

setLast(l, p, f, c) ==
  [k \in DOMAIN l \cup {<<p, f>>} |-> IF k = <<p, f>> THEN c ELSE l[k]]

writing(ws, p, f) ==
  \E w \in DOMAIN ws : ws[w].pc # "idle" /\ ws[w].prefix = p /\ ws[w].flag = f

\* a write of (p, f) by another client touches the backend: a call of the
\* flag, in flight or ended by an error, has not had the flag to itself
touched(c, p, f) ==
  IF c.prefix = p /\ c.flag = f THEN [c EXCEPT !.alone = FALSE] ELSE c

reading(r, p, f) == r.pc # "idle" /\ r.prefix = p /\ r.flag = f

\* a write of (p, f) touches the backend: a read of it, in flight or ended,
\* is no longer a read of the flag as the last completed call left it
disturb(r, p, f) == IF reading(r, p, f) THEN [r EXCEPT !.clean = FALSE] ELSE r

-----------------------------------------------------------------------------
(* RedisFeatureFlagCache.setFeatureFlag, one action per Redis command *)

\* the call ends: the promise resolves
setFeatureFlag_return(w) ==
  /\ writers' = [writers EXCEPT ![w] = IdleWriter("ok")]
  /\ last' = IF writers[w].alone
             THEN setLast(last, writers[w].prefix, writers[w].flag,
                          DoneCall(writers[w].enabled, writers[w].u))
             ELSE last

\* variant: hmset and the del of the users key sent as one MULTI/EXEC
setFeatureFlag_hmset_multi(w, p, flag, enabled, u) ==
  /\ writers[w].pc = "idle"
  /\ hashes' = hmset(hashes, featureInfoKey(p, flag), [enabled |-> enabledMarker(enabled)])
  /\ sets' = del(sets, featureUsersKey(p, flag))
  /\ writers' = [x \in DOMAIN writers |->
       IF x = w
       THEN [pc |-> "del", prefix |-> p, flag |-> flag, enabled |-> enabled, u |-> u,
             i |-> 0, alone |-> ~writing(writers, p, flag), out |-> "none",
             pre |-> recordOf(hashes, sets, p, flag), cmds |-> <<"hmset">>, failed |-> ""]
       ELSE touched(writers[x], p, flag)]
  /\ last' = setLast(last, p, flag, DirtyCall)
  /\ reader' = disturb(reader, p, flag)
  /\ guard' = [guard EXCEPT !.clean = FALSE]
  /\ UNCHANGED request

\* await this.redis.hmset(featureInfoKey, { enabled: enabled ? 'true' : 'false' })
setFeatureFlag_hmset(w, p, flag, enabled, u) ==
  /\ writers[w].pc = "idle"
  /\ hashes' = hmset(hashes, featureInfoKey(p, flag), [enabled |-> enabledMarker(enabled)])
  /\ writers' = [x \in DOMAIN writers |->
       IF x = w
       THEN [pc |-> "del", prefix |-> p, flag |-> flag, enabled |-> enabled, u |-> u,
             i |-> 0, alone |-> ~writing(writers, p, flag), out |-> "none",
             pre |-> recordOf(hashes, sets, p, flag), cmds |-> <<"hmset">>, failed |-> ""]
       ELSE touched(writers[x], p, flag)]
  /\ last' = setLast(last, p, flag, DirtyCall)
  /\ reader' = disturb(reader, p, flag)
  /\ guard' = [guard EXCEPT !.clean = FALSE]
  /\ UNCHANGED <<sets, request>>

\* await this.redis.del(featureUsersKey), in either branch
setFeatureFlag_del(w) ==
  LET c == writers[w] IN
  /\ c.pc = "del"
  /\ sets' = del(sets, featureUsersKey(c.prefix, c.flag))
  /\ IF hasUserIds(c.u)
     THEN /\ writers' = [writers EXCEPT ![w].pc = "sadd", ![w].i = 0,
                                         ![w].cmds = Append(c.cmds, "del")]
          /\ last' = last
     ELSE setFeatureFlag_return(w)
  /\ UNCHANGED <<hashes, reader, guard, request>>

\* one turn of the loop: await this.redis.sadd(featureUsersKey, ...batch)
setFeatureFlag_sadd(w) ==
  LET c == writers[w]
      batch == slice(c.u.ids, c.i, c.i + batchSize)
  IN
  /\ c.pc = "sadd"
  /\ sets' = sadd(sets, featureUsersKey(c.prefix, c.flag), Range(batch))
  /\ IF c.i + batchSize < Len(c.u.ids)
     THEN /\ writers' = [writers EXCEPT ![w].i = c.i + batchSize,
                                         ![w].cmds = Append(c.cmds, "sadd")]
          /\ last' = last
     ELSE setFeatureFlag_return(w)
  /\ UNCHANGED <<hashes, reader, guard, request>>

\* variant: the rejected command is caught and issued again
setFeatureFlag_throw_retry(w, p, flag, enabled, u) ==
  LET c == writers[w] IN
  /\ c.pc # "idle"
  /\ c.prefix = p /\ c.flag = flag /\ c.enabled = enabled /\ c.u = u
  /\ writers' = [writers EXCEPT ![w].cmds = Append(c.cmds, c.pc), ![w].failed = c.pc]
  /\ UNCHANGED <<hashes, sets, reader, last, guard, request>>

\* a command of the call is rejected by the backend: the await throws,
\* the call ends with that error and issues nothing further.  The rejected
\* command is hmset for a call that has just been made, else the one at pc.
setFeatureFlag_throw(w, p, flag, enabled, u) ==
  LET c == writers[w]
      call == IF c.pc = "idle"
              THEN [IdleWriter("none") EXCEPT !.prefix = p, !.flag = flag,
                       !.enabled = enabled, !.u = u,
                       !.alone = ~writing(writers, p, flag),
                       !.pre = recordOf(hashes, sets, p, flag)]
              ELSE c
      cmd == IF c.pc = "idle" THEN "hmset" ELSE c.pc
  IN
  /\ c.pc # "idle" =>
       (c.prefix = p /\ c.flag = flag /\ c.enabled = enabled /\ c.u = u)
  /\ writers' = [writers EXCEPT ![w] =
                   [call EXCEPT !.pc = "idle", !.out = "error",
                                !.cmds = Append(call.cmds, cmd), !.failed = cmd]]
  /\ UNCHANGED <<hashes, sets, reader, last, guard, request>>

-----------------------------------------------------------------------------
(* RedisFeatureFlagCache.getFeature and hasFeatureFlag *)

startRead(op, p, flag, user) ==
  [pc |-> "smembers", op |-> op, prefix |-> p, flag |-> flag, user |-> user,
   enabled |-> FALSE, res |-> NoResult,
   clean |-> ~writing(writers, p, flag), cmds |-> <<"hgetall">>, failed |-> ""]

\* const info = await this.redis.hgetall(featureInfoKey);
\* if (!info || !('enabled' in info)) return null;
getFeature_hgetall(p, flag) ==
  LET info == hgetall(hashes, featureInfoKey(p, flag))
      r == startRead("getFeature", p, flag, JsUndefined)
  IN
  /\ reader.pc \in {"idle", "done"}
  /\ reader' = IF infoMissing(info)
               THEN [r EXCEPT !.pc = "done", !.res = FeatureResult(NullFeature)]
               ELSE [r EXCEPT !.enabled = infoEnabled(info)]
  /\ UNCHANGED <<hashes, sets, writers, last, guard, request>>

\* const userIds = await this.redis.smembers(featureUsersKey); return {...}
getFeature_smembers ==
  LET userIds == smembers(sets, featureUsersKey(reader.prefix, reader.flag)) IN
  /\ reader.pc = "smembers" /\ reader.op = "getFeature"
  /\ reader' = [reader EXCEPT !.pc = "done", !.cmds = Append(reader.cmds, "smembers"),
                              !.res = FeatureResult(featureRecord(reader.enabled, userIds))]
  /\ UNCHANGED <<hashes, sets, writers, last, guard, request>>

\* hgetall, then: no marker -> false; marker not 'true' -> false
hasFeatureFlag_hgetall(p, flag, user) ==
  LET info == hgetall(hashes, featureInfoKey(p, flag))
      r == startRead("hasFeatureFlag", p, flag, user)
  IN
  /\ reader.pc \in {"idle", "done"}
  /\ reader' = IF infoMissing(info) THEN [r EXCEPT !.pc = "done", !.res = BoolResult(FALSE)]
               ELSE IF ~infoEnabled(info)
                    THEN [r EXCEPT !.pc = "done", !.res = BoolResult(FALSE)]
                    ELSE [r EXCEPT !.enabled = TRUE]
  /\ UNCHANGED <<hashes, sets, writers, last, guard, request>>

\* smembers, then: no users -> true; else userIds.includes(userId)
hasFeatureFlag_smembers ==
  LET userIds == smembers(sets, featureUsersKey(reader.prefix, reader.flag)) IN
  /\ reader.pc = "smembers" /\ reader.op = "hasFeatureFlag"
  /\ reader' = [reader EXCEPT !.pc = "done", !.cmds = Append(reader.cmds, "smembers"),
                              !.res = BoolResult(userAllowed(userIds, reader.user))]
  /\ UNCHANGED <<hashes, sets, writers, last, guard, request>>

\* hgetall or smembers is rejected by the backend: the read ends with the error
\* getFeature(flag) takes no user: its read carries undefined
read_throw(op, p, flag, user) ==
  LET who == IF op = "getFeature" THEN JsUndefined ELSE user IN
  /\ reader' = IF reader.pc = "smembers"
               THEN [reader EXCEPT !.pc = "done", !.res = ErrorResult,
                                   !.cmds = Append(reader.cmds, "smembers"),
                                   !.failed = "smembers"]
               ELSE [startRead(op, p, flag, who) EXCEPT !.pc = "done", !.res = ErrorResult,
                                                        !.failed = "hgetall"]
  /\ reader.pc = "smembers" =>
       reader.op = op /\ reader.prefix = p /\ reader.flag = flag /\ reader.user = who
  /\ UNCHANGED <<hashes, sets, writers, last, guard, request>>

\* another client of the backend writes the info hash of a flag directly
backend_hmset(p, flag, fields) ==
  /\ hashes' = hmset(hashes, featureInfoKey(p, flag), fields)
  /\ last' = setLast(last, p, flag, DirtyCall)
  /\ reader' = disturb(reader, p, flag)
  /\ writers' = [x \in DOMAIN writers |-> touched(writers[x], p, flag)]
  /\ guard' = [guard EXCEPT !.clean = FALSE]
  /\ UNCHANGED <<sets, request>>

-----------------------------------------------------------------------------
(* FeatureGuard: the request, the handler metadata, pure parts *)

\* reflector.get(FEATURE_FLAG_KEY, handler): undefined, null, a string, or
\* (README, integration tests) an array of strings
NoFlag == [t |-> "undefined", names |-> <<>>]
NullFlag == [t |-> "null", names |-> <<>>]
FlagName(n) == [t |-> "string", names |-> <<n>>]
FlagList(ns) == [t |-> "array", names |-> ns]

\* reflector.get(FEATURE_FLAG_OPTIONS_KEY, handler)
NoOptions == [t |-> "undefined", scope |-> ""]
Options(scope) == [t |-> "object", scope |-> scope]

RECURSIVE join(_)
join(names) ==
  IF Len(names) = 0 THEN ""
  ELSE IF Len(names) = 1 THEN names[1]
  ELSE names[1] \o "," \o join(Tail(names))

\* ToString(flag), as applied by `${...}` and by the computed key [flag]:
\* a string is itself, an array is its elements joined by ","
flagKey(meta) == join(meta.names)

\* variant: a null user id counts as no user id
anonymous_nullish(userId, isAdmin) ==
  userId.t \in {"undefined", "null"} /\ ~IsStrictTrue(isAdmin)

\* variant: the admin flag taken by truthiness in the anonymous test
anonymous_truthy(userId, isAdmin) == userId.t = "undefined" /\ ~Truthy(isAdmin)

\* userId === undefined && isAdmin !== true
anonymous(userId, isAdmin) == userId.t = "undefined" /\ ~IsStrictTrue(isAdmin)

\* variant: no admin bypass at all
adminBypass_never(isAdmin) == FALSE

\* variant: the admin flag taken by truthiness
adminBypass_truthy(isAdmin) == Truthy(isAdmin)

\* isAdmin === true
adminBypass(isAdmin) == IsStrictTrue(isAdmin)

\* variant: only undefined counts as no flag
noFlag_undefinedOnly(meta) == meta.t = "undefined"

\* flag === undefined || flag === null
noFlag(meta) == meta.t \in {"undefined", "null"}

\* feature?.enabled
optEnabled(feature) ==
  IF feature.t \in {"null", "undefined"} THEN JsUndefined
  ELSE IF feature.hasEnabled THEN feature.enabled ELSE JsUndefined

\* variant: a value already true on the request is kept
recorded_sticky(feature, hasFlag) ==
  JsBool((IsStrictTrue(optEnabled(feature)) /\ hasFlag)
         \/ (/\ request.feature_flags.t = "object"
             /\ join(guard.meta.names) \in DOMAIN request.feature_flags.m
             /\ IsStrictTrue(request.feature_flags.m[join(guard.meta.names)])))

\* variant: enabled taken by truthiness
recorded_truthy(feature, hasFlag) == JsBool(Truthy(optEnabled(feature)) /\ hasFlag)

\* feature?.enabled === true && hasFlag
recorded(feature, hasFlag) == JsBool(IsStrictTrue(optEnabled(feature)) /\ hasFlag)

\* variant: the scope option is not honoured
notServiceScope_always(options) == TRUE

\* options?.scope !== FeatureFlagScope.SERVICE
notServiceScope(options) == ~(options.t = "object" /\ options.scope = "SERVICE")

\* !feature?.enabled || !hasFlag
blocked(feature, hasFlag) == ~Truthy(optEnabled(feature)) \/ ~hasFlag

\* { ...request.__feature_flags, [flag]: value }
NoFlags == [f \in {} |-> JsUndefined]
spread(ff) == IF ff.t = "object" THEN ff.m ELSE NoFlags
\* variant: the map is built anew, without the spread
merged_replace(ff, key, value) == [t |-> "object", m |-> [k \in {key} |-> value]]

merged(ff, key, value) ==
  [t |-> "object",
   m |-> [k \in DOMAIN spread(ff) \cup {key} |-> IF k = key THEN value ELSE spread(ff)[k]]]

\* variant: the entry taken by truthiness
isFeatureEnabled_truthy(req, flag) ==
  /\ req.feature_flags.t = "object"
  /\ flag \in DOMAIN req.feature_flags.m
  /\ Truthy(req.feature_flags.m[flag])

\* request.__feature_flags?.[flag] === true
isFeatureEnabled(req, flag) ==
  /\ req.feature_flags.t = "object"
  /\ flag \in DOMAIN req.feature_flags.m
  /\ IsStrictTrue(req.feature_flags.m[flag])

IdleGuard(store) ==
  [pc |-> "idle", store |-> store, meta |-> NoFlag, options |-> NoOptions,
   userId |-> JsUndefined, enabled |-> FALSE, feature |-> NullFeature, hasFlag |-> FALSE,
   calls |-> <<>>, ret |-> "none", pre |-> [t |-> "undefined", m |-> NoFlags],
   clean |-> TRUE, failed |-> ""]

-----------------------------------------------------------------------------
(* FeatureGuard.canActivate *)

\* the rest of canActivate once both answers of the store are known:
\* write the value on the request, then decide by scope
finish(g, feature, hasFlag) ==
  /\ request' = [request EXCEPT !.feature_flags =
                   merged(request.feature_flags, flagKey(g.meta), recorded(feature, hasFlag))]
  /\ guard' = [g EXCEPT !.pc = "idle", !.feature = feature, !.hasFlag = hasFlag,
                 !.ret = IF notServiceScope(g.options) /\ blocked(feature, hasFlag)
                         THEN "false" ELSE "true"]

\* getFeature has resolved:
\* hasFlag = userId !== undefined ? await this.store.hasFeatureFlag(flag, userId) : false
afterGetFeature(g, feature) ==
  IF g.userId.t # "undefined"
  THEN /\ guard' = [g EXCEPT !.feature = feature,
                      !.pc = IF g.store = "redis" THEN "hf_hgetall" ELSE "hf_mock",
                      !.calls = Append(g.calls, "hasFeatureFlag")]
       /\ request' = request
  ELSE finish(g, feature, FALSE)

\* variant: the decision of the previous evaluation of the same flag is
\* kept by the guard and returned without asking the store
canActivate_cached(meta, options) ==
  LET userId == request.user_id
      isAdmin == request.is_admin
      g == [IdleGuard(guard.store) EXCEPT !.meta = meta, !.options = options,
              !.userId = userId, !.pre = request.feature_flags,
              !.clean = \A w \in DOMAIN writers : writers[w].pc = "idle"]
  IN
  /\ guard.pc = "idle"
  /\ guard' =
       IF anonymous(userId, isAdmin) THEN [g EXCEPT !.ret = "false"]
       ELSE IF adminBypass(isAdmin) THEN [g EXCEPT !.ret = "true"]
       ELSE IF noFlag(meta) THEN [g EXCEPT !.ret = "false"]
       ELSE IF guard.meta = meta /\ guard.options = options
               /\ guard.ret \in {"true", "false"} /\ Len(guard.calls) = 2
            THEN [g EXCEPT !.ret = guard.ret, !.calls = guard.calls,
                           !.feature = guard.feature, !.hasFlag = guard.hasFlag]
       ELSE [g EXCEPT !.pc = IF guard.store = "redis" THEN "gf_hgetall" ELSE "gf_mock",
                      !.calls = <<"getFeature">>]
  /\ UNCHANGED <<hashes, sets, writers, reader, last, request>>

\* from the entry to the first await: identity checks, metadata, getFeature called
canActivate(meta, options) ==
  LET userId == request.user_id
      isAdmin == request.is_admin
      g == [IdleGuard(guard.store) EXCEPT !.meta = meta, !.options = options,
              !.userId = userId, !.pre = request.feature_flags,
              !.clean = \A w \in DOMAIN writers : writers[w].pc = "idle"]
  IN
  /\ guard.pc = "idle"
  /\ guard' =
       IF anonymous(userId, isAdmin) THEN [g EXCEPT !.ret = "false"]
       ELSE IF adminBypass(isAdmin) THEN [g EXCEPT !.ret = "true"]
       ELSE IF noFlag(meta) THEN [g EXCEPT !.ret = "false"]
       ELSE [g EXCEPT !.pc = IF guard.store = "redis" THEN "gf_hgetall" ELSE "gf_mock",
                      !.calls = <<"getFeature">>]
  /\ UNCHANGED <<hashes, sets, writers, reader, last, request>>

\* the guard's store is a RedisFeatureFlagCache with the default prefix
canActivate_getFeature_hgetall ==
  LET info == hgetall(hashes, featureInfoKey(featureKeyPrefix, flagKey(guard.meta))) IN
  /\ guard.pc = "gf_hgetall"
  /\ IF infoMissing(info)
     THEN afterGetFeature(guard, NullFeature)
     ELSE /\ guard' = [guard EXCEPT !.pc = "gf_smembers", !.enabled = infoEnabled(info)]
          /\ request' = request
  /\ UNCHANGED <<hashes, sets, writers, reader, last>>

canActivate_getFeature_smembers ==
  LET userIds == smembers(sets, featureUsersKey(featureKeyPrefix, flagKey(guard.meta))) IN
  /\ guard.pc = "gf_smembers"
  /\ afterGetFeature(guard, featureRecord(guard.enabled, userIds))
  /\ UNCHANGED <<hashes, sets, writers, reader, last>>

canActivate_hasFeatureFlag_hgetall ==
  LET info == hgetall(hashes, featureInfoKey(featureKeyPrefix, flagKey(guard.meta))) IN
  /\ guard.pc = "hf_hgetall"
  /\ IF infoMissing(info) THEN finish(guard, guard.feature, FALSE)
     ELSE IF ~infoEnabled(info) THEN finish(guard, guard.feature, FALSE)
     ELSE /\ guard' = [guard EXCEPT !.pc = "hf_smembers"]
          /\ request' = request
  /\ UNCHANGED <<hashes, sets, writers, reader, last>>

canActivate_hasFeatureFlag_smembers ==
  LET userIds == smembers(sets, featureUsersKey(featureKeyPrefix, flagKey(guard.meta))) IN
  /\ guard.pc = "hf_smembers"
  /\ finish(guard, guard.feature, userAllowed(userIds, guard.userId))
  /\ UNCHANGED <<hashes, sets, writers, reader, last>>

\* the guard's store is a mock (jest.Mocked<FeatureGuardStore>): getFeature
\* resolves to whatever the test configured
canActivate_getFeature_mock(feature) ==
  /\ guard.pc = "gf_mock"
  /\ afterGetFeature(guard, feature)
  /\ UNCHANGED <<hashes, sets, writers, reader, last>>

canActivate_hasFeatureFlag_mock(hasFlag) ==
  /\ guard.pc = "hf_mock"
  /\ finish(guard, guard.feature, hasFlag)
  /\ UNCHANGED <<hashes, sets, writers, reader, last>>

\* variant: the rejection is caught and taken as "the user lacks the flag"
canActivate_throw_swallow ==
  /\ guard.pc # "idle"
  /\ finish([guard EXCEPT !.failed = guard.calls[Len(guard.calls)]], guard.feature, FALSE)
  /\ UNCHANGED <<hashes, sets, writers, reader, last>>

\* the awaited store call (the last of calls) rejects: canActivate rejects
\* with that error
canActivate_throw ==
  /\ guard.pc # "idle"
  /\ guard' = [guard EXCEPT !.pc = "idle", !.ret = "error",
                            !.failed = guard.calls[Len(guard.calls)]]
  /\ UNCHANGED <<hashes, sets, writers, reader, last, request>>

-----------------------------------------------------------------------------
(* Inputs *)

\* the users asked about: the listed ones, one that is never listed, and null
Callers == {JsString(u) : u \in Users \cup {"u3"}} \cup {JsNull}

\* what the tests write into an info hash behind the store's back
BackendFields ==
  { [someOtherField |-> "value"], [enabled |-> "not_a_boolean"] }

EmptyDb == [k \in {} |-> k]

DefaultRequest ==
  [user_id |-> JsString("u1"), is_admin |-> JsBool(FALSE),
   feature_flags |-> [t |-> "object", m |-> NoFlags]]

-----------------------------------------------------------------------------
(* The store under sequential writes, reads at any moment *)

Init ==
  /\ hashes = EmptyDb
  /\ sets = EmptyDb
  /\ writers = [w \in WriterIds |-> IdleWriter("none")]
  /\ reader = IdleReader
  /\ last = EmptyDb
  /\ guard = IdleGuard("redis")
  /\ request = DefaultRequest

Next ==
  \/ \E w \in WriterIds, f \in Flags, e \in BOOLEAN, u \in UserIdArgs :
       setFeatureFlag_hmset(w, featureKeyPrefix, f, e, u)
  \/ \E w \in WriterIds : setFeatureFlag_del(w)
  \/ \E w \in WriterIds : setFeatureFlag_sadd(w)
  \/ \E f \in Flags : getFeature_hgetall(featureKeyPrefix, f)
  \/ getFeature_smembers
  \/ \E f \in Flags, u \in Callers : hasFeatureFlag_hgetall(featureKeyPrefix, f, u)
  \/ hasFeatureFlag_smembers
  \/ \E op \in {"getFeature", "hasFeatureFlag"}, f \in Flags, u \in Callers :
       read_throw(op, featureKeyPrefix, f, u)
  \/ \E f \in Flags, fields \in BackendFields : backend_hmset(featureKeyPrefix, f, fields)

Spec == Init /\ [][Next]_vars

-----------------------------------------------------------------------------
(* The store over a backend that rejects commands (error-handling tests) *)

\* no list, an empty list, one user, and a list of the longest length
FailUserIdArgs ==
  { NoUserIds, [hasIds |-> TRUE, ids |-> <<>>], [hasIds |-> TRUE, ids |-> <<"u1">>],
    [hasIds |-> TRUE, ids |-> [i \in 1..MaxLen |-> "u2"]] }

FailCallers == { JsString("u1") }

NextFail ==
  \/ \E w \in WriterIds, f \in Flags, e \in BOOLEAN, u \in FailUserIdArgs :
       setFeatureFlag_hmset(w, featureKeyPrefix, f, e, u)
  \/ \E w \in WriterIds : setFeatureFlag_del(w)
  \/ \E w \in WriterIds : setFeatureFlag_sadd(w)
  \/ \E w \in WriterIds, f \in Flags, e \in BOOLEAN, u \in FailUserIdArgs :
       setFeatureFlag_throw(w, featureKeyPrefix, f, e, u)
  \/ \E f \in Flags : getFeature_hgetall(featureKeyPrefix, f)
  \/ getFeature_smembers
  \/ \E f \in Flags, u \in FailCallers : hasFeatureFlag_hgetall(featureKeyPrefix, f, u)
  \/ hasFeatureFlag_smembers
  \/ \E op \in {"getFeature", "hasFeatureFlag"}, f \in Flags, u \in FailCallers :
       read_throw(op, featureKeyPrefix, f, u)

SpecFail == Init /\ [][NextFail]_vars

-----------------------------------------------------------------------------
(* Two callers of setFeatureFlag at once (Promise.all of two updates) *)

WriterIds2 == {"w1", "w2"}

\* no list, or one of two disjoint lists of the longest length
TwoWriterArgs ==
  { NoUserIds, [hasIds |-> TRUE, ids |-> [i \in 1..MaxLen |-> "u1"]],
    [hasIds |-> TRUE, ids |-> [i \in 1..MaxLen |-> "u2"]] }

InitWriters ==
  /\ hashes = EmptyDb
  /\ sets = EmptyDb
  /\ writers = [w \in WriterIds2 |-> IdleWriter("none")]
  /\ reader = IdleReader
  /\ last = EmptyDb
  /\ guard = IdleGuard("redis")
  /\ request = DefaultRequest

NextWriters ==
  \/ \E w \in WriterIds2, f \in Flags, e \in BOOLEAN, u \in TwoWriterArgs :
       setFeatureFlag_hmset(w, featureKeyPrefix, f, e, u)
  \/ \E w \in WriterIds2 : setFeatureFlag_del(w)
  \/ \E w \in WriterIds2 : setFeatureFlag_sadd(w)

SpecWriters == InitWriters /\ [][NextWriters]_vars

-----------------------------------------------------------------------------
(* Two stores over one backend, each with its own key prefix *)

Prefixes == { featureKeyPrefix, "custom:prefix" }

\* a global flag, or one targeted at u1
PrefixUserIdArgs == { NoUserIds, [hasIds |-> TRUE, ids |-> <<"u1">>] }

PrefixCallers == { JsString("u1"), JsString("u3") }

NextPrefix ==
  \/ \E w \in WriterIds, p \in Prefixes, f \in Flags, e \in BOOLEAN, u \in PrefixUserIdArgs :
       setFeatureFlag_hmset(w, p, f, e, u)
  \/ \E w \in WriterIds : setFeatureFlag_del(w)
  \/ \E w \in WriterIds : setFeatureFlag_sadd(w)
  \/ \E p \in Prefixes, f \in Flags : getFeature_hgetall(p, f)
  \/ getFeature_smembers
  \/ \E p \in Prefixes, f \in Flags, u \in PrefixCallers : hasFeatureFlag_hgetall(p, f, u)
  \/ hasFeatureFlag_smembers

SpecPrefix == Init /\ [][NextPrefix]_vars

-----------------------------------------------------------------------------
(* Two stores whose prefixes and flag names contain the separator ':' *)

\* the default prefix, and a prefix that is a ':'-delimited head of it
KeyPrefixes == { featureKeyPrefix, "crudmates" }

\* a plain name, a name with colons (as 'feature:with:colons' in the
\* tests), and the empty name
KeyFlags == { "A", "feature-guard:A", "" }

\* a list of one user, so that every call runs hmset, del and sadd
KeyUserIdArgs == { [hasIds |-> TRUE, ids |-> <<"u1">>] }

NextKeys ==
  \/ \E w \in WriterIds, p \in KeyPrefixes, f \in KeyFlags, u \in KeyUserIdArgs :
       setFeatureFlag_hmset(w, p, f, TRUE, u)
  \/ \E w \in WriterIds : setFeatureFlag_del(w)
  \/ \E w \in WriterIds : setFeatureFlag_sadd(w)
  \/ \E p \in KeyPrefixes, f \in KeyFlags : getFeature_hgetall(p, f)
  \/ getFeature_smembers

SpecKeys == Init /\ [][NextKeys]_vars

-----------------------------------------------------------------------------
(* Long user lists, added in batches (performance tests) *)

\* lengths around every multiple of the batch size
BatchLengths ==
  { n \in 1..(MaxBatches * batchSize + 1) :
      \E k \in 0..MaxBatches : n \in {k * batchSize - 1, k * batchSize, k * batchSize + 1} }

\* Array.from({ length: n }, (_, i) => `user${i}`), and a list of the same
\* length in which three ids repeat
BatchUserIdArgs ==
  { [hasIds |-> TRUE, ids |-> [i \in 1..n |-> "user" \o ToString(i - 1)]] : n \in BatchLengths }
  \cup
  { [hasIds |-> TRUE, ids |-> [i \in 1..n |-> "user" \o ToString(i % 3)]] :
      n \in {batchSize + 1} }

NextBatch ==
  \/ \E w \in WriterIds, f \in Flags, u \in BatchUserIdArgs :
       setFeatureFlag_hmset(w, featureKeyPrefix, f, TRUE, u)
  \/ \E w \in WriterIds : setFeatureFlag_del(w)
  \/ \E w \in WriterIds : setFeatureFlag_sadd(w)

SpecBatch == Init /\ [][NextBatch]_vars

-----------------------------------------------------------------------------
(* A targeted flag being replaced while users ask for it *)

\* every call lists at least one user: the flag is never made global
WindowUserIdArgs == { u \in UserIdArgs : hasUserIds(u) }

NextWindow ==
  \/ \E w \in WriterIds, f \in Flags, e \in BOOLEAN, u \in WindowUserIdArgs :
       setFeatureFlag_hmset(w, featureKeyPrefix, f, e, u)
  \/ \E w \in WriterIds : setFeatureFlag_del(w)
  \/ \E w \in WriterIds : setFeatureFlag_sadd(w)
  \/ \E f \in Flags, u \in Callers : hasFeatureFlag_hgetall(featureKeyPrefix, f, u)
  \/ hasFeatureFlag_smembers

SpecWindow == Init /\ [][NextWindow]_vars

-----------------------------------------------------------------------------
(* The guard over a mocked store (unit tests of FeatureGuard) *)

\* __is_admin as the tests send it: true, false, 'true', 1, 'false', 0,
\* null, undefined, {}, []
AdminValues ==
  { JsBool(TRUE), JsBool(FALSE), JsString("true"), JsNumber("1"), JsString("false"),
    JsNumber("0"), JsNull, JsUndefined, JsObject, JsArray }

UserIdValues == { JsUndefined, JsNull, JsString("u1") }

FlagsObject(m) == [t |-> "object", m |-> m]

InitialFlags ==
  { [t |-> "undefined", m |-> NoFlags],
    FlagsObject(NoFlags),
    FlagsObject([k \in {"existing_flag"} |-> JsBool(TRUE)]),
    FlagsObject([k \in {"A"} |-> JsBool(TRUE)]) }

Metas == { NoFlag, NullFlag, FlagName("A"), FlagList(<<"A">>), FlagList(<<"A", "B">>) }

OptionsSet == { NoOptions, Options(""), Options("CONTROLLER"), Options("SERVICE") }

\* what a mocked getFeature resolves to: undefined, null, {}, {enabled: true},
\* {enabled: false}, {enabled: 'true'}
MockFeature(t, hasEnabled, enabled) ==
  [t |-> t, hasEnabled |-> hasEnabled, enabled |-> enabled,
   hasUserIds |-> FALSE, userIds |-> {}]

MockFeatures ==
  { MockFeature("undefined", FALSE, JsUndefined),
    MockFeature("null", FALSE, JsUndefined),
    MockFeature("object", FALSE, JsUndefined),
    MockFeature("object", TRUE, JsBool(TRUE)),
    MockFeature("object", TRUE, JsBool(FALSE)),
    MockFeature("object", TRUE, JsString("true")) }

InitGuard ==
  /\ hashes = EmptyDb
  /\ sets = EmptyDb
  /\ writers = [w \in WriterIds |-> IdleWriter("none")]
  /\ reader = IdleReader
  /\ last = EmptyDb
  /\ guard = IdleGuard("mock")
  /\ request \in [user_id : UserIdValues, is_admin : AdminValues, feature_flags : InitialFlags]

NextGuard ==
  \/ \E meta \in Metas, options \in OptionsSet : canActivate(meta, options)
  \/ \E feature \in MockFeatures : canActivate_getFeature_mock(feature)
  \/ \E hasFlag \in BOOLEAN : canActivate_hasFeatureFlag_mock(hasFlag)
  \/ canActivate_throw

SpecGuard == InitGuard /\ [][NextGuard]_vars

-----------------------------------------------------------------------------
(* FeatureGuard.isFeatureEnabled on requests as handlers may find them *)

\* a handler calls FeatureGuard.isFeatureEnabled(request, flag); the value
\* returned is kept in ret, the map as it was at the call in pre
isFeatureEnabled_call(flag) ==
  /\ guard.pc = "idle"
  /\ guard' = [IdleGuard(guard.store) EXCEPT
                 !.meta = FlagName(flag), !.calls = <<"isFeatureEnabled">>,
                 !.userId = request.user_id, !.pre = request.feature_flags,
                 !.ret = IF isFeatureEnabled(request, flag) THEN "true" ELSE "false"]
  /\ UNCHANGED <<hashes, sets, writers, reader, last, request>>

\* entries as the tests set them: true, false, 'true', and null, 1, undefined
EntryValues ==
  { JsBool(TRUE), JsBool(FALSE), JsString("true"), JsNull, JsNumber("1"), JsUndefined }

\* __feature_flags: not set, null, {}, or an object with an entry for A, B or both
FlagMaps ==
  { [t |-> "undefined", m |-> NoFlags], [t |-> "null", m |-> NoFlags], FlagsObject(NoFlags) }
  \cup { FlagsObject([k \in {n} |-> v]) : n \in {"A", "B"}, v \in EntryValues }
  \cup { FlagsObject([k \in {"A", "B"} |-> IF k = "A" THEN v ELSE JsBool(TRUE)]) :
           v \in EntryValues }

InitEnabled ==
  /\ hashes = EmptyDb
  /\ sets = EmptyDb
  /\ writers = [w \in WriterIds |-> IdleWriter("none")]
  /\ reader = IdleReader
  /\ last = EmptyDb
  /\ guard = IdleGuard("mock")
  /\ request \in [user_id : {JsUndefined, JsString("u1")}, is_admin : {JsBool(FALSE)},
                  feature_flags : FlagMaps]

NextEnabled == \E flag \in {"A", "B"} : isFeatureEnabled_call(flag)

SpecEnabled == InitEnabled /\ [][NextEnabled]_vars

-----------------------------------------------------------------------------
(* The guard over the Redis store (integration tests) *)

GuardFlags == {"A", "B"}

\* a global flag, or one targeted at u1
GuardUserIdArgs == { NoUserIds, [hasIds |-> TRUE, ids |-> <<"u1">>] }

GuardMetas == { FlagName("A"), FlagList(<<"A">>), FlagList(<<"A", "B">>) }

GuardOptions == { NoOptions, Options("SERVICE") }

InitInteg ==
  /\ hashes = EmptyDb
  /\ sets = EmptyDb
  /\ writers = [w \in WriterIds |-> IdleWriter("none")]
  /\ reader = IdleReader
  /\ last = EmptyDb
  /\ guard = IdleGuard("redis")
  /\ request \in [user_id : {JsString("u1"), JsString("u3")}, is_admin : {JsBool(FALSE)},
                  feature_flags : {FlagsObject(NoFlags)}]

NextInteg ==
  \/ \E w \in WriterIds, f \in GuardFlags, e \in BOOLEAN, u \in GuardUserIdArgs :
       setFeatureFlag_hmset(w, featureKeyPrefix, f, e, u)
  \/ \E w \in WriterIds : setFeatureFlag_del(w)
  \/ \E w \in WriterIds : setFeatureFlag_sadd(w)
  \/ \E meta \in GuardMetas, options \in GuardOptions : canActivate(meta, options)
  \/ canActivate_getFeature_hgetall
  \/ canActivate_getFeature_smembers
  \/ canActivate_hasFeatureFlag_hgetall
  \/ canActivate_hasFeatureFlag_smembers

SpecInteg == InitInteg /\ [][NextInteg]_vars

-----------------------------------------------------------------------------
(* Vocabulary of the properties, stated on the backend and on the results *)

InfoAt(f) == "crudmates:feature-guard:" \o f \o ":info"
UsersAt(f) == "crudmates:feature-guard:" \o f \o ":users"

\* no enabled marker is stored for the flag
NoMarker(f) == InfoAt(f) \notin DOMAIN hashes \/ "enabled" \notin DOMAIN hashes[InfoAt(f)]

\* the flag is enabled and the user passes its allow-list, if it has one
Resolves(f, user) ==
  /\ ~NoMarker(f)
  /\ hashes[InfoAt(f)]["enabled"] = "true"
  /\ UsersAt(f) \in DOMAIN sets => (user.t = "string" /\ user.v \in sets[UsersAt(f)])

BoolTrue == [t |-> "boolean", v |-> "true"]
BoolFalse == [t |-> "boolean", v |-> "false"]

\* a read of the store has ended without a backend error, and no write of
\* the flag was in flight at its start or began since
ReadDone(op) ==
  /\ reader.pc = "done" /\ reader.op = op /\ reader.clean
  /\ reader.res.kind # "error"

\* the last completed setFeatureFlag of the flag that was read
LastSet == lastOf(last, reader.prefix, reader.flag)

\* a canActivate call has ended
GuardDone == guard.pc = "idle" /\ guard.ret # "none"
GuardDecided == GuardDone /\ guard.ret # "error"

IsAdminRequest == request.is_admin = BoolTrue
IsAnonymous == request.user_id.t = "undefined"
ServiceScope == guard.options.t = "object" /\ guard.options.scope = "SERVICE"
FlagConfigured == guard.meta.t \in {"string", "array"}
BothStoreCalls == <<"getFeature", "hasFeatureFlag">>

-----------------------------------------------------------------------------
(* Properties of the store *)

\* C1: disabled always wins.  When the last completed setFeatureFlag of a
\* flag had enabled=false, a hasFeatureFlag made after it returns false for
\* every user, whatever userIds that call or an earlier one passed.
C1_DisabledAlwaysWins ==
  (ReadDone("hasFeatureFlag") /\ LastSet.st = "done" /\ ~LastSet.enabled)
    => reader.res.val = FALSE

\* the asking user was in the userIds of the disabling call
C1_Witness ==
  /\ ReadDone("hasFeatureFlag") /\ LastSet.st = "done" /\ ~LastSet.enabled
  /\ reader.user.t = "string" /\ reader.user.v \in Range(LastSet.u.ids)
  /\ reader.res.val = FALSE

\* C2: when the last completed setFeatureFlag of a flag had enabled=true
\* with allow-list S, hasFeatureFlag returns true for every user if S is
\* empty or absent, and true exactly for the members of S otherwise.
C2_EnabledGlobalOrTargeted ==
  (ReadDone("hasFeatureFlag") /\ LastSet.st = "done" /\ LastSet.enabled)
    => LET S == Range(LastSet.u.ids) IN
       reader.res.val = (S = {} \/ (reader.user.t = "string" /\ reader.user.v \in S))

\* a targeted flag with two listed users, asked about a user not listed
C2_Witness ==
  /\ ReadDone("hasFeatureFlag") /\ LastSet.st = "done" /\ LastSet.enabled
  /\ Cardinality(Range(LastSet.u.ids)) = 2
  /\ reader.user = [t |-> "string", v |-> "u3"]
  /\ reader.res.val = FALSE

\* C10: an unknown flag fails closed.  getFeature returns null exactly when
\* no enabled marker is stored for the name (nothing stored, or an info
\* hash without the field), and then hasFeatureFlag returns false.
C10_UnknownFlagFailsClosed ==
  /\ ReadDone("getFeature") => ((reader.res.feature.t = "null") <=> NoMarker(reader.flag))
  /\ (ReadDone("hasFeatureFlag") /\ NoMarker(reader.flag))
       => (reader.res.kind = "bool" /\ reader.res.val = FALSE)

\* the info hash exists but holds no enabled field; getFeature gave null
C10_Witness ==
  /\ ReadDone("getFeature") /\ reader.res.feature.t = "null"
  /\ InfoAt(reader.flag) \in DOMAIN hashes
  /\ "enabled" \notin DOMAIN hashes[InfoAt(reader.flag)]

\* the enabled marker stored for the flag
Marker(f) == hashes[InfoAt(f)]["enabled"]

\* C11: a malformed marker fails closed.  When the stored enabled marker is
\* any string other than "true", getFeature returns a record (not null) with
\* enabled=false and hasFeatureFlag returns false for every user, whatever
\* the users set holds; neither ends with an error of its own.
C11_MalformedMarkerFailsClosed ==
  /\ (ReadDone("getFeature") /\ ~NoMarker(reader.flag) /\ Marker(reader.flag) # "true")
       => /\ reader.res.kind = "feature"
          /\ reader.res.feature.t = "object"
          /\ reader.res.feature.enabled = BoolFalse
  /\ (ReadDone("hasFeatureFlag") /\ ~NoMarker(reader.flag) /\ Marker(reader.flag) # "true")
       => (reader.res.kind = "bool" /\ reader.res.val = FALSE)

\* the marker is "not_a_boolean" and the asking user is in the users set
C11_Witness ==
  /\ ReadDone("hasFeatureFlag") /\ ~NoMarker(reader.flag)
  /\ Marker(reader.flag) = "not_a_boolean"
  /\ UsersAt(reader.flag) \in DOMAIN sets
  /\ reader.user.t = "string" /\ reader.user.v \in sets[UsersAt(reader.flag)]
  /\ reader.res.val = FALSE

\* the last completed, undisturbed setFeatureFlag of flag f
LastWrite(f) ==
  IF <<"crudmates:feature-guard", f>> \in DOMAIN last
  THEN last[<<"crudmates:feature-guard", f>>]
  ELSE [st |-> "none", enabled |-> FALSE, u |-> [hasIds |-> FALSE, ids |-> <<>>]]

\* the stored record of f is exactly: marker of `enabled`, users set S
\* (no users key at all when S is empty)
StoredIs(f, enabled, S) ==
  /\ ~NoMarker(f)
  /\ Marker(f) = (IF enabled THEN "true" ELSE "false")
  /\ IF S = {} THEN UsersAt(f) \notin DOMAIN sets
     ELSE UsersAt(f) \in DOMAIN sets /\ sets[UsersAt(f)] = S

\* C12: setFeatureFlag is wholly replacing and idempotent.  After a call
\* that ran alone to its end, and until the next write of the flag, the
\* stored record is exactly that call's enabled value and the set of its
\* userIds (no users set when userIds is empty or absent), whatever was
\* stored before; the state after a call is therefore a function of its
\* arguments, and repeating the call leaves it unchanged.
C12_WhollyReplacing ==
  \A f \in Flags :
    LastWrite(f).st = "done"
      => StoredIs(f, LastWrite(f).enabled,
                  {LastWrite(f).u.ids[i] : i \in 1..Len(LastWrite(f).u.ids)})

\* an earlier getFeature saw u1 in the allow-list; after a later call with
\* userIds [u2] only u2 is stored
C12_Witness ==
  /\ reader.pc = "done" /\ reader.op = "getFeature" /\ reader.res.kind = "feature"
  /\ reader.res.feature.userIds = {"u1"}
  /\ LastWrite(reader.flag).st = "done"
  /\ LastWrite(reader.flag).u.ids = <<"u2">>
  /\ sets[UsersAt(reader.flag)] = {"u2"}

\* the users set stored for flag f, empty when there is no users key
UsersNow(f) == IF UsersAt(f) \in DOMAIN sets THEN sets[UsersAt(f)] ELSE {}

\* C14: setFeatureFlag is not transactional.  A call that has the flag to
\* itself writes the marker first: until its del has run the backend holds
\* the new marker with the old users set, and from then until each sadd has
\* run it holds the new marker with no users set or only the ids added so
\* far.  A getFeature or hasFeatureFlag running meanwhile reads that state.
C14_InterimState ==
  \A w \in DOMAIN writers :
    (writers[w].pc # "idle" /\ writers[w].alone)
      => /\ ~NoMarker(writers[w].flag)
         /\ Marker(writers[w].flag) = (IF writers[w].enabled THEN "true" ELSE "false")
         /\ writers[w].pc = "del" => UsersNow(writers[w].flag) = writers[w].pre.users
         /\ writers[w].pc = "sadd" =>
              UsersNow(writers[w].flag) = {writers[w].u.ids[k] : k \in 1..writers[w].i}

\* the flag was disabled with users {u1}; a call enabling it for [u2] has
\* written the marker and not yet deleted the users: a hasFeatureFlag for
\* u1 made meanwhile has returned true
C14_Witness ==
  /\ \E w \in DOMAIN writers :
       /\ writers[w].pc = "del" /\ writers[w].alone /\ writers[w].enabled
       /\ writers[w].u.ids = <<"u2">>
       /\ writers[w].pre = [has |-> TRUE, marker |-> "false", users |-> {"u1"}]
       /\ reader.flag = writers[w].flag
  /\ reader.pc = "done" /\ reader.op = "hasFeatureFlag" /\ ~reader.clean
  /\ reader.user = [t |-> "string", v |-> "u1"]
  /\ reader.res.kind = "bool" /\ reader.res.val = TRUE

\* after the step, the stored record of f is exactly: marker of `enabled`,
\* users set S
StoredAfter(f, enabled, S) ==
  /\ InfoAt(f) \in DOMAIN hashes' /\ "enabled" \in DOMAIN hashes'[InfoAt(f)]
  /\ hashes'[InfoAt(f)]["enabled"] = (IF enabled THEN "true" ELSE "false")
  /\ IF S = {} THEN UsersAt(f) \notin DOMAIN sets'
     ELSE UsersAt(f) \in DOMAIN sets' /\ sets'[UsersAt(f)] = S

\* the step is the return of call w, which overlapped another write of its
\* flag, and it leaves no call in flight
CompletesLast(w) ==
  /\ writers[w].pc # "idle" /\ ~writers[w].alone
  /\ writers'[w].pc = "idle" /\ writers'[w].out = "ok"
  /\ \A x \in DOMAIN writers : writers'[x].pc = "idle"

\* C15: concurrent writers, the last completed write wins.  When calls on
\* the same flag overlap and all complete, the stored record (marker and
\* users set together) is the one requested by the call that completes
\* last.
C15_LastCompletedWins ==
  [][\A w \in DOMAIN writers :
       CompletesLast(w)
         => StoredAfter(writers[w].flag, writers[w].enabled,
                        {writers[w].u.ids[k] : k \in 1..Len(writers[w].u.ids)})]_vars

\* what is stored for flag f now: marker and users set
StoredNow(f) ==
  [has |-> ~NoMarker(f),
   marker |-> IF NoMarker(f) THEN "" ELSE Marker(f),
   users |-> IF UsersAt(f) \in DOMAIN sets THEN sets[UsersAt(f)] ELSE {}]

\* a setFeatureFlag call has ended with the error of a rejected command,
\* and no other write has touched its flag since the call was made
WriteFailed(w) ==
  writers[w].pc = "idle" /\ writers[w].out = "error" /\ writers[w].alone

\* C13: setFeatureFlag is atomic.  When a call ends with the error of any
\* backend command it issued, neither the enabled marker nor the users set
\* of the flag has changed: the stored record is the one found at entry.
C13_AtomicOnError ==
  \A w \in DOMAIN writers :
    WriteFailed(w) => StoredNow(writers[w].flag) = writers[w].pre

\* the commands a call with these userIds issues when none is rejected
\* (one sadd per batch of 1000 ids)
AllCommands(u) ==
  IF u.hasIds /\ Len(u.ids) > 0
  THEN <<"hmset", "del">> \o [i \in 1..((Len(u.ids) + 999) \div 1000) |-> "sadd"]
  ELSE <<"hmset", "del">>

\* log is a non-empty beginning of full whose last command is cmd
StopsAt(log, full, cmd) ==
  /\ Len(log) \in 1..Len(full)
  /\ log = [i \in 1..Len(log) |-> full[i]]
  /\ log[Len(log)] = cmd

\* C17: no retries, no recovery.  Once a backend command of setFeatureFlag,
\* getFeature or hasFeatureFlag has been rejected, the operation has ended
\* with the error; the commands it issued are the ones that precede the
\* rejected command in the code, then that command once, and nothing after
\* it (hmset rejected: no del, no sadd; hgetall rejected: no smembers).
C17_NoRetryNoRecovery ==
  /\ \A w \in DOMAIN writers :
       writers[w].failed # ""
         => /\ writers[w].pc = "idle" /\ writers[w].out = "error"
            /\ StopsAt(writers[w].cmds, AllCommands(writers[w].u), writers[w].failed)
  /\ reader.failed # ""
       => /\ reader.pc = "done" /\ reader.res.kind = "error"
          /\ StopsAt(reader.cmds, <<"hgetall", "smembers">>, reader.failed)

\* del was rejected in a call that had user ids to add: hmset and del were
\* issued, sadd was not; and a read whose hgetall was rejected
C17_Witness ==
  /\ \E w \in DOMAIN writers :
       /\ writers[w].failed = "del" /\ Len(writers[w].u.ids) > 0
       /\ writers[w].cmds = <<"hmset", "del">>
  /\ reader.failed = "hgetall" /\ reader.cmds = <<"hgetall">>

-----------------------------------------------------------------------------
(* Properties of the guard *)

\* the single configured flag name, when the metadata is one name
OneName == Len(guard.meta.names) = 1

\* feature?.enabled is the boolean true in the answer getFeature gave
AnsweredEnabled ==
  guard.feature.t = "object" /\ guard.feature.hasEnabled /\ guard.feature.enabled = BoolTrue

\* the answer getFeature gave is an object whose enabled is not a falsy value
AnsweredNotFalsy ==
  /\ guard.feature.t = "object" /\ guard.feature.hasEnabled
  /\ guard.feature.enabled \notin
       { BoolFalse, [t |-> "undefined", v |-> ""], [t |-> "null", v |-> ""],
         [t |-> "number", v |-> "0"], [t |-> "string", v |-> ""] }

\* C3: admin bypass.  With __is_admin strictly the boolean true, canActivate
\* returns true for every flag, scope and store, with or without a user id,
\* calls neither getFeature nor hasFeatureFlag and leaves __feature_flags
\* as it was.
C3_AdminBypass ==
  (GuardDone /\ IsAdminRequest)
    => (guard.ret = "true" /\ guard.calls = <<>> /\ request.feature_flags = guard.pre)

\* an admin without a user id, on a handler with a flag, was let through
C3_Witness ==
  /\ GuardDone /\ IsAdminRequest /\ IsAnonymous /\ FlagConfigured
  /\ guard.ret = "true" /\ guard.calls = <<>>

\* C4: strictly boolean admin.  An __is_admin other than the boolean true
\* never bypasses: whatever the value ('true', 1, 'false', 0, null,
\* undefined, {}, [] or false), the request takes the one non-admin path.
\* Without a user id, or without a flag, it is denied with no store call;
\* otherwise both store calls are made and it is allowed exactly in SERVICE
\* scope or when the flag is enabled and the user has it.
C4_StrictBooleanAdmin ==
  (GuardDecided /\ ~IsAdminRequest)
    => IF IsAnonymous \/ ~FlagConfigured
       THEN guard.ret = "false" /\ guard.calls = <<>>
       ELSE /\ guard.calls = BothStoreCalls
            /\ guard.ret = "true" <=> (ServiceScope \/ (guard.hasFlag /\ AnsweredNotFalsy))

\* __is_admin is the string 'true'; the user lacks the flag and is denied
C4_Witness ==
  /\ GuardDone /\ request.is_admin = [t |-> "string", v |-> "true"]
  /\ ~ServiceScope /\ guard.calls = BothStoreCalls
  /\ AnsweredEnabled /\ ~guard.hasFlag
  /\ guard.ret = "false"

\* C5: anonymous denial.  Without a user id and without strictly boolean
\* admin, canActivate returns false for every flag and scope, makes no
\* store call and leaves __feature_flags as it was.
C5_AnonymousDenial ==
  (GuardDone /\ IsAnonymous /\ ~IsAdminRequest)
    => (guard.ret = "false" /\ guard.calls = <<>> /\ request.feature_flags = guard.pre)

\* an anonymous request with a truthy non-boolean admin, SERVICE scope
C5_Witness ==
  /\ GuardDone /\ IsAnonymous /\ request.is_admin = [t |-> "number", v |-> "1"]
  /\ ServiceScope /\ FlagConfigured
  /\ guard.ret = "false"

\* C7 as stated: with scope SERVICE canActivate returns true for every
\* request, whenever the store does not fail.
C7_ServiceAlwaysTrue ==
  (GuardDecided /\ ServiceScope) => guard.ret = "true"

\* C7 amended: with scope SERVICE canActivate returns true, whatever the
\* flag resolves to, for every admin request and for every request that
\* has a user id and a configured flag, whenever the store does not fail.
C7_ServiceTrueOnceIdentified ==
  (GuardDecided /\ ServiceScope /\ (IsAdminRequest \/ (~IsAnonymous /\ FlagConfigured)))
    => guard.ret = "true"

\* SERVICE scope, a user who lacks the flag: recorded false, request proceeds
C7_Witness ==
  /\ GuardDecided /\ ServiceScope /\ ~IsAdminRequest /\ ~IsAnonymous /\ OneName
  /\ guard.calls = BothStoreCalls /\ ~guard.hasFlag
  /\ request.feature_flags.m[guard.meta.names[1]] = BoolFalse
  /\ guard.ret = "true"

\* C9: the recorded value.  For a non-admin identified request the value
\* written into __feature_flags[name] is (getFeature(name)?.enabled === true)
\* AND hasFeatureFlag(name, userId), in both scopes, also when the request
\* is denied.
C9_RecordedValue ==
  (GuardDecided /\ guard.calls = BothStoreCalls /\ OneName)
    => /\ request.feature_flags.t = "object"
       /\ guard.meta.names[1] \in DOMAIN request.feature_flags.m
       /\ request.feature_flags.m[guard.meta.names[1]] =
            (IF AnsweredEnabled /\ guard.hasFlag THEN BoolTrue ELSE BoolFalse)

\* enabled came back as the string 'true' and the user has the flag: the
\* request passes in CONTROLLER scope, the recorded value is false
C9_Witness ==
  /\ GuardDecided /\ guard.calls = BothStoreCalls /\ OneName /\ ~ServiceScope
  /\ guard.feature.enabled = [t |-> "string", v |-> "true"] /\ guard.hasFlag
  /\ request.feature_flags.m[guard.meta.names[1]] = BoolFalse

\* C16: store failures surface from the guard.  When getFeature or
\* hasFeatureFlag rejects, canActivate rejects with the error in CONTROLLER
\* and in SERVICE scope: it returns no boolean and __feature_flags is as it
\* was before the call.
C16_StoreFailureSurfaces ==
  (GuardDone /\ guard.failed # "")
    => (guard.ret = "error" /\ request.feature_flags = guard.pre)

\* SERVICE scope, getFeature answered {enabled: true}, hasFeatureFlag
\* rejected: no decision, the map still holds only what it held
C16_Witness ==
  /\ GuardDone /\ guard.failed = "hasFeatureFlag" /\ ServiceScope
  /\ ~IsAdminRequest /\ ~IsAnonymous /\ AnsweredEnabled
  /\ guard.ret = "error"
  /\ request.feature_flags = [t |-> "object", m |-> [k \in {"existing_flag"} |-> BoolTrue]]

\* the key a call evaluates: the configured name; a list of names is
\* evaluated as the one name its elements joined by "," spell
EvaluatedKey ==
  IF Len(guard.meta.names) = 1 THEN guard.meta.names[1]
  ELSE guard.meta.names[1] \o "," \o guard.meta.names[2]

\* the entries of __feature_flags before the call
EntriesBefore == IF guard.pre.t = "object" THEN guard.pre.m ELSE [k \in {} |-> BoolFalse]

\* C18: merge into the request.  A canActivate call that evaluates a name
\* leaves every other entry of __feature_flags as it was (none removed,
\* none altered, none added) and sets the entry of the evaluated name to
\* the value of this evaluation; a call that evaluates nothing, and a call
\* still in flight, leave the map as it was.  Over a sequence of calls
\* each entry therefore holds the most recent evaluation of its name.
C18_MergeIntoRequest ==
  IF GuardDecided /\ guard.calls = BothStoreCalls
  THEN /\ request.feature_flags.t = "object"
       /\ DOMAIN request.feature_flags.m = DOMAIN EntriesBefore \cup {EvaluatedKey}
       /\ \A k \in DOMAIN EntriesBefore \ {EvaluatedKey} :
            request.feature_flags.m[k] = EntriesBefore[k]
       /\ request.feature_flags.m[EvaluatedKey] =
            (IF AnsweredEnabled /\ guard.hasFlag THEN BoolTrue ELSE BoolFalse)
  ELSE (guard.pc # "idle" \/ GuardDone) => request.feature_flags = guard.pre

\* the map held A:true and another entry; a later evaluation of A gave
\* false: A is overwritten, the other entry is as it was
C18_Witness ==
  /\ GuardDecided /\ guard.calls = BothStoreCalls /\ OneName
  /\ guard.pre.t = "object" /\ Cardinality(DOMAIN guard.pre.m) = 2
  /\ guard.meta.names[1] \in DOMAIN guard.pre.m
  /\ guard.pre.m[guard.meta.names[1]] = BoolTrue
  /\ request.feature_flags.m[guard.meta.names[1]] = BoolFalse
  /\ \E k \in DOMAIN guard.pre.m \ {guard.meta.names[1]} :
       request.feature_flags.m[k] = guard.pre.m[k]

\* isFeatureEnabled has returned for the name in meta
Asked == guard.calls = <<"isFeatureEnabled">>

\* C19: isFeatureEnabled(request, name) returns true if and only if
\* __feature_flags is an object whose entry for name is the boolean true.
\* No map (undefined or null), no such key, and an entry that is false,
\* null, undefined, a number or the string 'true' all give false.  The call
\* leaves __feature_flags as it was.
C19_StrictlyTrueEntry ==
  Asked =>
    /\ guard.ret \in {"true", "false"}
    /\ guard.ret = "true" <=>
         /\ request.feature_flags.t = "object"
         /\ guard.meta.names[1] \in DOMAIN request.feature_flags.m
         /\ request.feature_flags.m[guard.meta.names[1]] = BoolTrue
    /\ request.feature_flags = guard.pre

\* the entry is the string 'true': the answer is false
C19_Witness ==
  /\ Asked /\ request.feature_flags.t = "object"
  /\ guard.meta.names[1] \in DOMAIN request.feature_flags.m
  /\ request.feature_flags.m[guard.meta.names[1]] = [t |-> "string", v |-> "true"]
  /\ guard.ret = "false"

\* C24: the decision agrees with the recorded value.  For a non-admin
\* identified request in CONTROLLER scope canActivate returns true if and
\* only if the value it records in __feature_flags for the flag is true,
\* whatever record the store returned (null, undefined, no enabled, a
\* boolean or a non-boolean enabled).
C24_DecisionAgreesWithRecord ==
  (GuardDecided /\ guard.calls = BothStoreCalls /\ OneName /\ ~ServiceScope)
    => (guard.ret = "true" <=> request.feature_flags.m[guard.meta.names[1]] = BoolTrue)

\* C25: pre-existing request flags do not influence the outcome.  For a
\* non-admin identified request the value recorded for the evaluated flag
\* and the decision are given by the answers of the store and the scope
\* alone, so two requests that differ only in what __feature_flags held
\* before get the same of both; a value pre-set for the flag is replaced.
C25_PresetFlagsIgnored ==
  (GuardDecided /\ ~IsAdminRequest /\ ~IsAnonymous /\ FlagConfigured /\ OneName)
    => /\ request.feature_flags.m[guard.meta.names[1]] =
            (IF AnsweredEnabled /\ guard.hasFlag THEN BoolTrue ELSE BoolFalse)
       /\ guard.ret = (IF ServiceScope \/ (guard.hasFlag /\ AnsweredNotFalsy)
                       THEN "true" ELSE "false")

\* the request came with the flag pre-set to true; the store says the user
\* lacks it: the entry now says false and the request is denied
C25_Witness ==
  /\ GuardDecided /\ ~IsAdminRequest /\ ~IsAnonymous /\ OneName /\ ~ServiceScope
  /\ guard.pre.t = "object" /\ guard.meta.names[1] \in DOMAIN guard.pre.m
  /\ guard.pre.m[guard.meta.names[1]] = BoolTrue
  /\ AnsweredEnabled /\ ~guard.hasFlag
  /\ request.feature_flags.m[guard.meta.names[1]] = BoolFalse
  /\ guard.ret = "false"

\* C26: a null user id is not anonymous.  A non-admin request whose
\* __user_id is null passes the anonymous test: both store calls are made,
\* hasFeatureFlag with null as the user, the value is recorded, and in
\* CONTROLLER scope the request is denied when hasFeatureFlag says false.
C26_NullUserIdConsultsStore ==
  (GuardDecided /\ request.user_id = [t |-> "null", v |-> ""]
     /\ ~IsAdminRequest /\ FlagConfigured)
    => /\ guard.calls = BothStoreCalls
       /\ guard.userId = [t |-> "null", v |-> ""]
       /\ request.feature_flags.t = "object"
       /\ EvaluatedKey \in DOMAIN request.feature_flags.m
       /\ request.feature_flags.m[EvaluatedKey] =
            (IF AnsweredEnabled /\ guard.hasFlag THEN BoolTrue ELSE BoolFalse)
       /\ (~ServiceScope /\ ~guard.hasFlag) => guard.ret = "false"
       /\ (guard.hasFlag /\ AnsweredEnabled) => guard.ret = "true"

\* user id null, the flag enabled, hasFeatureFlag(flag, null) said false
C26_Witness ==
  /\ GuardDecided /\ request.user_id = [t |-> "null", v |-> ""] /\ ~IsAdminRequest
  /\ OneName /\ ~ServiceScope /\ guard.calls = BothStoreCalls
  /\ AnsweredEnabled /\ ~guard.hasFlag
  /\ request.feature_flags.m[guard.meta.names[1]] = BoolFalse
  /\ guard.ret = "false"

\* C27: no flag configured.  When the flag metadata of the handler is
\* undefined or null, canActivate for a non-admin request with a user id
\* returns false in either scope, makes no store call and leaves
\* __feature_flags as it was.
C27_NoFlagConfigured ==
  (GuardDone /\ ~IsAdminRequest /\ ~IsAnonymous /\ guard.meta.t \in {"undefined", "null"})
    => (guard.ret = "false" /\ guard.calls = <<>> /\ request.feature_flags = guard.pre)

\* the metadata is null and the scope is SERVICE: denied without a store call
C27_Witness ==
  /\ GuardDone /\ ~IsAdminRequest /\ request.user_id = [t |-> "string", v |-> "u1"]
  /\ guard.meta.t = "null" /\ ServiceScope
  /\ guard.ret = "false" /\ guard.calls = <<>>

-----------------------------------------------------------------------------
(* Properties of the guard over the Redis store *)

\* a canActivate of a non-admin identified request has ended with a
\* decision, and no setFeatureFlag was in flight at its start or began since
GuardSettled ==
  /\ GuardDecided /\ guard.clean
  /\ ~IsAdminRequest /\ ~IsAnonymous /\ FlagConfigured

ListedNames == {guard.meta.names[i] : i \in 1..Len(guard.meta.names)}

\* C6: CONTROLLER scope.  For a non-admin identified request with a list of
\* flag names, canActivate returns true if and only if every listed flag
\* resolves to true for the user.
C6_ControllerAllFlags ==
  (GuardSettled /\ ~ServiceScope)
    => (guard.ret = "true" <=> \A n \in ListedNames : Resolves(n, request.user_id))

\* C8: no short-circuiting.  After the call __feature_flags holds, for every
\* listed name, the value that name resolves to; with [A, B], A true and B
\* false, CONTROLLER scope returns false and the map has A:true and B:false.
C8_EveryListedNameRecorded ==
  GuardSettled
    => \A n \in ListedNames :
         /\ n \in DOMAIN request.feature_flags.m
         /\ request.feature_flags.m[n] =
              (IF Resolves(n, request.user_id) THEN BoolTrue ELSE BoolFalse)

\* C20: no caching between evaluations.  Every evaluation of a non-admin
\* identified request asks the store, and one that starts after a
\* setFeatureFlag of the flag has completed, with no write since, decides
\* by that write: the recorded value is true exactly when the call enabled
\* the flag and the user passes its userIds, and in CONTROLLER scope that
\* is the decision (false after a disable, true again after a re-enable).
C20_DecidesByLastWrite ==
  (GuardSettled /\ OneName)
    => /\ guard.calls = BothStoreCalls
       /\ LET L == LastWrite(guard.meta.names[1])
              S == {L.u.ids[k] : k \in 1..Len(L.u.ids)}
              on == L.enabled /\ (S = {} \/ request.user_id.v \in S)
          IN  L.st = "done"
                => /\ request.feature_flags.m[guard.meta.names[1]] =
                        (IF on THEN BoolTrue ELSE BoolFalse)
                   /\ ~ServiceScope => (guard.ret = "true" <=> on)

\* an earlier evaluation on this request recorded true for the flag; a
\* setFeatureFlag(enabled=false) listing the user has completed since and
\* the evaluation made after it returned false
C20_Witness ==
  /\ GuardSettled /\ OneName /\ ~ServiceScope
  /\ guard.pre.t = "object" /\ guard.meta.names[1] \in DOMAIN guard.pre.m
  /\ guard.pre.m[guard.meta.names[1]] = BoolTrue
  /\ LastWrite(guard.meta.names[1]).st = "done"
  /\ ~LastWrite(guard.meta.names[1]).enabled
  /\ LastWrite(guard.meta.names[1]).u.ids = <<request.user_id.v>>
  /\ guard.ret = "false"

-----------------------------------------------------------------------------
(* Properties of stores with different prefixes *)

InfoUnder(p, f) == p \o ":" \o f \o ":info"
UsersUnder(p, f) == p \o ":" \o f \o ":users"

\* the last completed, undisturbed setFeatureFlag of f through the store
\* with prefix p
LastWriteUnder(p, f) ==
  IF <<p, f>> \in DOMAIN last THEN last[<<p, f>>]
  ELSE [st |-> "none", enabled |-> FALSE, u |-> [hasIds |-> FALSE, ids |-> <<>>]]

\* under prefix p the record of f is exactly: marker of `enabled`, users S
StoredUnder(p, f, enabled, S) ==
  /\ InfoUnder(p, f) \in DOMAIN hashes /\ "enabled" \in DOMAIN hashes[InfoUnder(p, f)]
  /\ hashes[InfoUnder(p, f)]["enabled"] = (IF enabled THEN "true" ELSE "false")
  /\ IF S = {} THEN UsersUnder(p, f) \notin DOMAIN sets
     ELSE UsersUnder(p, f) \in DOMAIN sets /\ sets[UsersUnder(p, f)] = S

\* what a read through prefix p must give when the record of f is
\* (enabled, S), and when nothing was ever written
ReadGives(enabled, S) ==
  IF reader.op = "getFeature"
  THEN /\ reader.res.feature.t = "object"
       /\ reader.res.feature.enabled = (IF enabled THEN BoolTrue ELSE BoolFalse)
       /\ reader.res.feature.userIds = S
  ELSE reader.res.val = (enabled /\ (S = {} \/ reader.user.v \in S))

ReadGivesNothing ==
  IF reader.op = "getFeature" THEN reader.res.feature.t = "null"
  ELSE reader.res.val = FALSE

\* C21: prefix independence.  For each of two stores with different
\* prefixes and the same flag name, the record is kept under
\* <prefix>:<flag>:info (field enabled = "true" | "false") and
\* <prefix>:<flag>:users, and it is what the last setFeatureFlag through
\* that store left, whatever is written through the other store meanwhile:
\* getFeature and hasFeatureFlag of the store answer by it, and a name
\* never written through a store is unknown to it.
C21_PrefixIndependence ==
  \A p \in {"crudmates:feature-guard", "custom:prefix"} : \A f \in Flags :
    LET L == LastWriteUnder(p, f)
        S == {L.u.ids[k] : k \in 1..Len(L.u.ids)}
        readHere == /\ reader.pc = "done" /\ reader.clean /\ reader.res.kind # "error"
                    /\ reader.prefix = p /\ reader.flag = f
    IN
    /\ L.st = "done" => (StoredUnder(p, f, L.enabled, S) /\ (readHere => ReadGives(L.enabled, S)))
    /\ L.st = "none" =>
         /\ InfoUnder(p, f) \notin DOMAIN hashes /\ UsersUnder(p, f) \notin DOMAIN sets
         /\ readHere => ReadGivesNothing

\* the flag is disabled through the default store and enabled for all
\* through the custom one; hasFeatureFlag of the default store says false
C21_Witness ==
  /\ LastWriteUnder("crudmates:feature-guard", "A").st = "done"
  /\ ~LastWriteUnder("crudmates:feature-guard", "A").enabled
  /\ LastWriteUnder("custom:prefix", "A").st = "done"
  /\ LastWriteUnder("custom:prefix", "A").enabled
  /\ LastWriteUnder("custom:prefix", "A").u.ids = <<>>
  /\ reader.pc = "done" /\ reader.clean /\ reader.op = "hasFeatureFlag"
  /\ reader.prefix = "crudmates:feature-guard" /\ reader.flag = "A"
  /\ reader.res.val = FALSE

-----------------------------------------------------------------------------
(* Properties of the batches *)

\* the users set of f after the step
UsersAfter(f) == IF UsersAt(f) \in DOMAIN sets' THEN sets'[UsersAt(f)] ELSE {}

\* the step is a sadd of call w, which has had its flag to itself
AddsBatch(w) ==
  writers[w].pc = "sadd" /\ writers[w].alone /\ writers'[w] # writers[w]

\* C22: chunked insertion is complete.  The k-th sadd of a call with n > 0
\* userIds adds the ids at places 1000(k-1)+1 .. min(1000k, n) of the list,
\* so that the users set then holds exactly the first min(1000k, n) ids;
\* the call ends with the sadd number ceil(n/1000) and not before, leaving
\* exactly the set of the given ids, for n just below, at and just above
\* every multiple of 1000 and for lists with repeated ids.
C22_ChunkedInsertion ==
  [][\A w \in DOMAIN writers :
       AddsBatch(w) =>
         LET ids == writers[w].u.ids
             n == Len(ids)
             k == Len(writers[w].cmds) - 1
             upTo == IF 1000 * k < n THEN 1000 * k ELSE n
         IN  /\ n > 0 /\ 1000 * (k - 1) < n
             /\ UsersAfter(writers[w].flag) = {ids[j] : j \in 1..upTo}
             /\ (writers'[w].pc = "idle") <=> (k = (n + 999) \div 1000)
             /\ writers'[w].pc = "idle" => writers'[w].out = "ok"]_vars

\* a list of exactly two full batches has been stored: 2000 members
C22_Witness ==
  /\ LastWrite("A").st = "done" /\ Len(LastWrite("A").u.ids) = 2000
  /\ UsersAt("A") \in DOMAIN sets /\ Cardinality(sets[UsersAt("A")]) = 2000

-----------------------------------------------------------------------------
(* Properties of a targeted flag under replacement *)

\* C23: no unintended access window.  When every setFeatureFlag of a flag
\* installs a non-empty allow-list (the flag was unknown before the first),
\* hasFeatureFlag never returns true for a user that none of the lists
\* names, also when it runs while a call is in progress.
C23_NoAccessWindow ==
  (reader.pc = "done" /\ reader.op = "hasFeatureFlag" /\ reader.res.kind = "bool"
     /\ reader.user = [t |-> "string", v |-> "u3"])
    => reader.res.val = FALSE

-----------------------------------------------------------------------------
(* The two read paths *)

\* getFeature has answered as the stored record of the flag requires
GetFeatureAgrees ==
  IF NoMarker(reader.flag) THEN reader.res.feature.t = "null"
  ELSE /\ reader.res.feature.t = "object"
       /\ reader.res.feature.enabled =
            (IF Marker(reader.flag) = "true" THEN BoolTrue ELSE BoolFalse)
       /\ reader.res.feature.hasUserIds <=> UsersNow(reader.flag) # {}
       /\ reader.res.feature.hasUserIds => reader.res.feature.userIds = UsersNow(reader.flag)

\* the four steps applied to what getFeature returns for the stored record:
\* null -> false; not enabled -> false; userIds undefined -> true; else
\* membership
FourSteps ==
  IF NoMarker(reader.flag) THEN FALSE
  ELSE IF Marker(reader.flag) # "true" THEN FALSE
  ELSE IF UsersNow(reader.flag) = {} THEN TRUE
  ELSE reader.user.t = "string" /\ reader.user.v \in UsersNow(reader.flag)

ReadsAgree ==
  /\ ReadDone("getFeature") => GetFeatureAgrees
  /\ ReadDone("hasFeatureFlag") => (reader.res.kind = "bool" /\ reader.res.val = FourSteps)

\* the step is one of the read: more than its clean mark changes
ReadStep == [reader' EXCEPT !.clean = TRUE] # [reader EXCEPT !.clean = TRUE]

\* C28: the two read paths agree.  With no write of the flag in progress,
\* getFeature returns the stored record (null without a marker, userIds
\* undefined exactly when the users set is empty or absent) and
\* hasFeatureFlag returns what the four-step algorithm gives on that
\* record; no step of a read changes a hash or a set of the backend.
C28_ReadPathsAgree ==
  [][ReadsAgree' /\ (ReadStep => (hashes' = hashes /\ sets' = sets))]_vars

\* getFeature on an enabled flag with no users set: userIds is undefined
C28_Witness ==
  /\ ReadDone("getFeature") /\ ~NoMarker(reader.flag) /\ Marker(reader.flag) = "true"
  /\ UsersAt(reader.flag) \notin DOMAIN sets
  /\ reader.res.feature.t = "object" /\ ~reader.res.feature.hasUserIds

-----------------------------------------------------------------------------
(* Frame of setFeatureFlag *)

\* the names a record can be kept under in the default store
OtherNames == {"A", "B", "A,B"}

\* the entry of a backend key: absent, or its value
EntryOf(db, k) == IF k \in DOMAIN db THEN <<db[k]>> ELSE <<>>

\* what getFeature(g) and hasFeatureFlag(g, u) return on backend (h, s)
GetFeatureOn(h, s, g) ==
  LET info == hgetall(h, InfoAt(g)) IN
  IF infoMissing(info) THEN NullFeature
  ELSE featureRecord(infoEnabled(info), smembers(s, UsersAt(g)))

HasFeatureFlagOn(h, s, g, u) ==
  LET info == hgetall(h, InfoAt(g)) IN
  IF infoMissing(info) THEN FALSE
  ELSE IF ~infoEnabled(info) THEN FALSE
  ELSE userAllowed(smembers(s, UsersAt(g)), u)

\* the flag name of the setFeatureFlag that writer w is taking a step of
StepFlag(w) == IF writers[w].pc = "idle" THEN writers'[w].flag ELSE writers[w].flag

\* C29: setFeatureFlag on flag f touches only f.  At every step of a
\* setFeatureFlag(f, ...), the last one included, the enabled marker and
\* the users set of every other name g are unchanged, and so are the
\* results of getFeature(g) and hasFeatureFlag(g, u).
C29_WriteTouchesOnlyItsFlag ==
  [][\A w \in WriterIds : writers'[w] # writers[w] =>
       \A g \in OtherNames \ {StepFlag(w)} :
         /\ EntryOf(hashes', InfoAt(g)) = EntryOf(hashes, InfoAt(g))
         /\ EntryOf(sets', UsersAt(g)) = EntryOf(sets, UsersAt(g))
         /\ GetFeatureOn(hashes', sets', g) = GetFeatureOn(hashes, sets, g)
         /\ \A u \in {JsString("u1"), JsString("u2"), JsNull} :
              HasFeatureFlagOn(hashes', sets', g, u) = HasFeatureFlagOn(hashes, sets, g, u)]_vars

\* a setFeatureFlag of A has deleted the users set of A and is about to
\* add to it, while B is kept enabled for u1
C29_Witness ==
  /\ \E w \in WriterIds : writers[w].pc = "sadd" /\ writers[w].flag = "A"
  /\ InfoAt("B") \in DOMAIN hashes /\ hashes[InfoAt("B")] = [enabled |-> "true"]
  /\ UsersAt("B") \in DOMAIN sets /\ sets[UsersAt("B")] = {"u1"}

-----------------------------------------------------------------------------
(* Backend keys of different (prefix, flag name) pairs *)

\* what getFeature(g) and hasFeatureFlag(g, u) of the store with prefix p
\* return on backend (h, s)
GetFeatureThrough(h, s, p, g) ==
  LET info == hgetall(h, featureInfoKey(p, g)) IN
  IF infoMissing(info) THEN NullFeature
  ELSE featureRecord(infoEnabled(info), smembers(s, featureUsersKey(p, g)))

HasFeatureFlagThrough(h, s, p, g, u) ==
  LET info == hgetall(h, featureInfoKey(p, g)) IN
  IF infoMissing(info) THEN FALSE
  ELSE IF ~infoEnabled(info) THEN FALSE
  ELSE userAllowed(smembers(s, featureUsersKey(p, g)), u)

\* the prefix of the store whose setFeatureFlag writer w is taking a step of
StepPrefix(w) == IF writers[w].pc = "idle" THEN writers'[w].prefix ELSE writers[w].prefix

\* C30: backend keys are unambiguous.  The keys a setFeatureFlag step
\* writes through one prefix are keys of no (prefix, flag name) pair with
\* a different prefix, for names that are empty or contain ':' as well, so
\* the step never changes what getFeature or hasFeatureFlag returns
\* through a store with a different prefix.
C30_KeysUnambiguous ==
  [][\A w \in WriterIds : writers'[w] # writers[w] =>
       \A q \in KeyPrefixes \ {StepPrefix(w)} : \A g \in KeyFlags :
         /\ featureInfoKey(q, g) # featureInfoKey(StepPrefix(w), StepFlag(w))
         /\ featureUsersKey(q, g) # featureUsersKey(StepPrefix(w), StepFlag(w))
         /\ GetFeatureThrough(hashes', sets', q, g) = GetFeatureThrough(hashes, sets, q, g)
         /\ \A u \in {JsString("u1"), JsString("u3")} :
              HasFeatureFlagThrough(hashes', sets', q, g, u)
                = HasFeatureFlagThrough(hashes, sets, q, g, u)]_vars

=============================================================================
